---- MODULE Spec2Model ----
(***************************************************************************)
(* Model of synapse/push/mailer.py: Mailer.send_notification_mail and the  *)
(* helpers it drives (get_room_vars, get_notif_vars, get_message_vars,     *)
(* make_summary_text, deduped_ordered_list).                               *)
(*                                                                         *)
(* Python values are represented as follows.                               *)
(*   None                  the empty tuple <<>>                            *)
(*   a room id             a number in Rooms                               *)
(*   a user id             a number; Me is the recipient                   *)
(*   an event id           <<room, position in that room's timeline>>      *)
(*   a display name        <<user>>                                        *)
(*   a room name           <<"name", room>> (explicit name) or             *)
(*                         <<"members", room>> (derived from the members)  *)
(*   room_state_ids        a function from <<type, state_key>> to the id   *)
(*                         of the state event, <<room, type, state_key>>   *)
(***************************************************************************)
EXTENDS Integers, Sequences, FiniteSets, TLC

\* ------------------------------------------------------------------ bounds
NumRooms == 4
OrderRooms == 2
TimelineLen == 3
NumSenders == 3
MaxBatch == 3
MaxNotifs == 3
MaxSummary == 2
MaxTs == 1

\* ------------------------------------------------------- program constants
CONTEXT_BEFORE == 1
CONTEXT_AFTER == 1
\* "sync does 10 at a time"
SyncFetchLimit == 10
\* "Run at most 3 of these at once"
FetchLimit == 3

None == <<>>
Me == 0
Rooms == 1..NumRooms
Senders == 1..NumSenders
Events == Rooms \X (1..TimelineLen)
\* a received_ts that is None is the number NoTs
NoTs == 0 - 1
TsVals == {NoTs} \cup (1..MaxTs)

VARIABLES
    store,           \* the datastore the Mailer reads (fixed during one call)
    push_actions,    \* argument: the batch of push actions
    reason,          \* argument: the reason dict (room_id, later room_name)
    pc,              \* position of send_notification_mail
    failure,         \* the exception that ended the call, or "none"
    rooms_in_order,  \* local list
    notifs_by_room,  \* local dict room_id -> list of push actions
    state_by_room,   \* local dict room_id -> room_state_ids
    it,              \* concurrently_execute: index of the next room to fetch
    inflight,        \* rooms whose _fetch_room_state has started, not completed
    fetches,         \* number of _fetch_room_state calls started, per room
    overtaken,       \* history: some fetch completed before one started earlier
    rooms,           \* local list of room view models
    summary_text,    \* result of make_summary_text
    sent             \* calls of send_email made so far

vars == <<store, push_actions, reason, pc, failure, rooms_in_order,
          notifs_by_room, state_by_room, it, inflight, fetches, overtaken,
          rooms, summary_text, sent>>

\* ----------------------------------------------------------------- helpers
Range(s) == {s[i] : i \in 1..Len(s)}

Min(a, b) == IF a < b THEN a ELSE b

SeqsUpTo(S, n) == UNION {[1..k -> S] : k \in 1..n}

Perms(S) == {p \in [1..Cardinality(S) -> S] : \A x \in S : \E i \in DOMAIN p : p[i] = x}

\* ------------------------------------------------------------- the datastore
\* Sender of an event (Event.sender).
SenderOf(e) == ((e[1] + e[2]) % NumSenders) + 1

\* The user who invited the recipient (my_member_event.sender).
InviterOf(room_id) == (room_id % NumSenders) + 1

\* store.get_current_state_ids(room_id): every room has a create event, a
\* member event per sender that has one, the recipient's member event unless
\* it is absent, and an m.room.name event if the room is explicitly named.
StateKeys(st, room_id) ==
    {<<"m.room.create", Me>>}
    \cup {<<"m.room.member", u>> : u \in Senders \ st.nonmembers}
    \cup (IF st.membership[room_id] = "absent" THEN {} ELSE {<<"m.room.member", Me>>})
    \cup (IF st.naming[room_id] = "explicit" THEN {<<"m.room.name", Me>>} ELSE {})

get_current_state_ids(st, room_id) ==
    [k \in StateKeys(st, room_id) |-> <<room_id, k[1], k[2]>>]

\* name_from_member_event(member_event): the member's display name.
name_from_member_event(member_event_id) == <<member_event_id[3]>>

\* descriptor_from_member_events(member_events), on the names in the order
\* the events are iterated.
descriptor_from_member_events(users) ==
    IF Len(users) <= 2
    THEN [names |-> users, others |-> 0]
    ELSE [names |-> <<users[1]>>, others |-> Len(users) - 1]

RoomOfState(room_state_ids) == room_state_ids[<<"m.room.create", Me>>][1]

\* calculate_room_name(store, room_state_ids, user_id, fallback_to_members)
calculate_room_name(st, room_state_ids, fallback_to_members) ==
    IF <<"m.room.name", Me>> \in DOMAIN room_state_ids
    THEN <<"name", RoomOfState(room_state_ids)>>
    ELSE IF fallback_to_members /\ st.naming[RoomOfState(room_state_ids)] = "members"
         THEN <<"members", RoomOfState(room_state_ids)>>
         ELSE None

\* store.get_events_around(room_id, event_id, before_limit, after_limit)
events_before(e, before_limit) ==
    [k \in 1..Min(before_limit, e[2] - 1) |-> <<e[1], e[2] - Min(before_limit, e[2] - 1) + k - 1>>]

events_after(e, after_limit) ==
    [k \in 1..Min(after_limit, TimelineLen - e[2]) |-> <<e[1], e[2] + k>>]

\* filter_events_for_client(storage, user_id, events)
filter_events_for_client(st, events) ==
    SelectSeq(events, LAMBDA e : e \notin st.hidden)

\* ------------------------------------------------------ deduped_ordered_list
RECURSIVE DedupInto(_, _)
DedupInto(items, ret) ==
    IF items = <<>> THEN ret
    ELSE DedupInto(Tail(items),
                   IF Head(items) \in Range(ret) THEN ret ELSE Append(ret, Head(items)))

deduped_ordered_list(items) == DedupInto(items, <<>>)

\* notifs_by_room.setdefault(pa["room_id"], []).append(pa), for every pa
GroupByRoom(pas) ==
    [r \in {pas[i].room_id : i \in 1..Len(pas)} |->
        SelectSeq(pas, LAMBDA pa : pa.room_id = r)]

\* ------------------------------------------------------- rooms_in_order.sort
OrZero(ts) == IF ts = NoTs \/ ts = 0 THEN 0 ELSE ts

\* key=lambda r: -(notifs_by_room[r][-1]["received_ts"] or 0)
SortKey(nbr, r) == 0 - OrZero(nbr[r][Len(nbr[r])].received_ts)

\* list.sort is stable: an element goes after every element whose key is not
\* greater than its own.
RECURSIVE InsertByKey(_, _, _)
InsertByKey(sorted, x, nbr) ==
    IF sorted = <<>> THEN <<x>>
    ELSE IF SortKey(nbr, x) < SortKey(nbr, Head(sorted))
         THEN <<x>> \o sorted
         ELSE <<Head(sorted)>> \o InsertByKey(Tail(sorted), x, nbr)

RECURSIVE SortInto(_, _, _)
SortInto(items, sorted, nbr) ==
    IF items = <<>> THEN sorted
    ELSE SortInto(Tail(items), InsertByKey(sorted, Head(items), nbr), nbr)

SortRooms(rio, nbr) == SortInto(rio, <<>>, nbr)

\* ------------------------------------------------------------ get_message_vars
is_historical_never(event, notif) == TRUE

\* "is_historical": event.event_id != notif["event_id"]
is_historical(event, notif) == event # notif.event_id

\* get_message_vars raises KeyError when the sender has no member event
MessageVarsRaises(st, event, room_state_ids) ==
    /\ st.type[event] = "m.room.message"
    /\ <<"m.room.member", SenderOf(event)>> \notin DOMAIN room_state_ids

\* the dict get_message_vars returns for a message event
get_message_vars(st, notif, event, room_state_ids) ==
    [id |-> event,
     is_historical |-> is_historical(event, notif),
     sender_name |-> name_from_member_event(
                        room_state_ids[<<"m.room.member", SenderOf(event)>>])]

\* -------------------------------------------------------------- get_notif_vars
\* the_events: the visible events before the notification's event, then the
\* notification's event itself.
the_events(st, notif) ==
    Append(filter_events_for_client(st, events_before(notif.event_id, CONTEXT_BEFORE)),
           notif.event_id)

NotifVarsRaises(st, notif, room_state_ids) ==
    \E e \in Range(the_events(st, notif)) : MessageVarsRaises(st, e, room_state_ids)

get_notif_vars(st, notif, room_state_ids) ==
    LET msgs == SelectSeq(the_events(st, notif),
                          LAMBDA e : st.type[e] = "m.room.message")
    IN [ts |-> notif.received_ts,
        messages |-> [i \in 1..Len(msgs) |->
                         get_message_vars(st, notif, msgs[i], room_state_ids)]]

\* ------------------------------------------------ get_room_vars: the merge pass
\* a merge that keeps only the messages already in the previous run
RECURSIVE MergeMessagesFoundOnly(_, _, _)
MergeMessagesFoundOnly(prev_messages, messages, merge) ==
    IF messages = <<>> THEN [prev |-> prev_messages, merge |-> merge]
    ELSE LET message == Head(messages)
             pm == {i \in 1..Len(prev_messages) : prev_messages[i].id = message.id}
         IN IF pm # {}
            THEN LET pm0 == CHOOSE i \in pm : \A j \in pm : i <= j
                 IN MergeMessagesFoundOnly(
                        IF ~message.is_historical
                        THEN [prev_messages EXCEPT ![pm0].is_historical = FALSE]
                        ELSE prev_messages,
                        Tail(messages), TRUE)
            ELSE MergeMessagesFoundOnly(prev_messages, Tail(messages), merge)

\* The loop over notifvars["messages"]: the state is (prev_messages, merge).
RECURSIVE MergeMessages(_, _, _)
MergeMessages(prev_messages, messages, merge) ==
    IF messages = <<>> THEN [prev |-> prev_messages, merge |-> merge]
    ELSE LET message == Head(messages)
             pm == {i \in 1..Len(prev_messages) : prev_messages[i].id = message.id}
         IN IF pm # {}
            THEN LET pm0 == CHOOSE i \in pm : \A j \in pm : i <= j
                 IN MergeMessages(
                        IF ~message.is_historical
                        THEN [prev_messages EXCEPT ![pm0].is_historical = FALSE]
                        ELSE prev_messages,
                        Tail(messages), TRUE)
            ELSE IF merge
                 THEN MergeMessages(Append(prev_messages, message), Tail(messages), TRUE)
                 ELSE MergeMessages(prev_messages, Tail(messages), FALSE)

MergeNotifNever(notifs, notifvars) == Append(notifs, notifvars)

\* One iteration of the loop over notifs, after get_notif_vars returned.
MergeNotif(notifs, notifvars) ==
    IF notifs # <<>>
    THEN LET res == MergeMessages(notifs[Len(notifs)].messages, notifvars.messages, FALSE)
         IN IF res.merge
            THEN [notifs EXCEPT ![Len(notifs)].messages = res.prev]
            ELSE Append(notifs, notifvars)
    ELSE Append(notifs, notifvars)

RECURSIVE BuildNotifs(_, _, _, _)
BuildNotifs(st, room_state_ids, notifs, acc) ==
    IF notifs = <<>> THEN acc
    ELSE BuildNotifs(st, room_state_ids, Tail(notifs),
                     MergeNotif(acc, get_notif_vars(st, Head(notifs), room_state_ids)))

RoomNotifsUnguarded(st, room_state_ids, notifs, is_invite) ==
    BuildNotifs(st, room_state_ids, notifs, <<>>)

\* if not is_invite: for n in notifs: ...
RoomNotifs(st, room_state_ids, notifs, is_invite) ==
    IF ~is_invite THEN BuildNotifs(st, room_state_ids, notifs, <<>>) ELSE <<>>

\* get_room_vars raises KeyError when the recipient has no member event in the
\* snapshot, or (for a room that is not an invite) when get_message_vars does.
RoomVarsRaises(st, notifs, room_state_ids) ==
    \/ <<"m.room.member", Me>> \notin DOMAIN room_state_ids
    \/ /\ st.membership[RoomOfState(room_state_ids)] # "invite"
       /\ \E i \in 1..Len(notifs) : NotifVarsRaises(st, notifs[i], room_state_ids)

get_room_vars(st, room_id, notifs, room_state_ids) ==
    LET is_invite == st.membership[room_state_ids[<<"m.room.member", Me>>][1]] = "invite"
    IN [room_id |-> room_id,
        title |-> calculate_room_name(st, room_state_ids, TRUE),
        notifs |-> RoomNotifs(st, room_state_ids, notifs, is_invite),
        invite |-> is_invite]

\* ----------------------------------------------------------- make_summary_text
Summary(template, person, room) == [template |-> template, person |-> person, room |-> room]

NoPerson == [names |-> <<>>, others |-> 0]
OnePerson(name) == [names |-> name, others |-> 0]

\* A function that falls off its end returns None.
NoSummary == Summary("None", NoPerson, None)

\* one sender per notification, senders of several notifications repeated
SenderIdsPerNotif(notifs, order) ==
    [i \in 1..Len(notifs) |-> SenderOf(notifs[i].event_id)]

\* sender_ids = list({notif_events[n["event_id"]].sender for n in notifs}),
\* in the iteration order 'order' of the set.
SenderIds(notifs, order) ==
    SelectSeq(order, LAMBDA s : \E i \in 1..Len(notifs) : SenderOf(notifs[i].event_id) = s)

SendersRaise(notifs, room_state_ids) ==
    \E i \in 1..Len(notifs) :
        <<"m.room.member", SenderOf(notifs[i].event_id)>> \notin DOMAIN room_state_ids

AllNotifs(nbr) ==
    LET rs == CHOOSE p \in Perms(DOMAIN nbr) : TRUE
        RECURSIVE Cat(_)
        Cat(i) == IF i > Len(rs) THEN <<>> ELSE nbr[rs[i]] \o Cat(i + 1)
    IN Cat(1)

MultiRoomSummaryAllRooms(nbr, rsn, order) ==
    IF rsn.room_name # None
    THEN Summary("messages_in_room_and_others", NoPerson, rsn.room_name)
    ELSE Summary("messages_from_person_and_others",
                 descriptor_from_member_events(SenderIds(AllNotifs(nbr), order)), None)

\* the else branch of make_summary_text: several rooms have notifications
MultiRoomSummary(nbr, rsn, order) ==
    IF rsn.room_name # None
    THEN Summary("messages_in_room_and_others", NoPerson, rsn.room_name)
    ELSE Summary("messages_from_person_and_others",
                 descriptor_from_member_events(SenderIds(nbr[rsn.room_id], order)), None)

\* the branch of make_summary_text for a single room
SingleRoomSummary(st, nbr, rsi, order) ==
    LET room_id == CHOOSE r \in DOMAIN nbr : TRUE
        room_name == calculate_room_name(st, rsi[room_id], FALSE)
    IN IF st.membership[room_id] = "invite"
       THEN LET inviter_name == name_from_member_event(
                                    rsi[room_id][<<"m.room.member", InviterOf(room_id)>>])
            IN IF room_name = None
               THEN Summary("invite_from_person", OnePerson(inviter_name), None)
               ELSE Summary("invite_from_person_to_room", OnePerson(inviter_name), room_name)
       ELSE IF Len(nbr[room_id]) = 1
       THEN LET event == nbr[room_id][1].event_id
                sender_name ==
                    IF <<"m.room.member", SenderOf(event)>> \in DOMAIN rsi[room_id]
                    THEN name_from_member_event(rsi[room_id][<<"m.room.member", SenderOf(event)>>])
                    ELSE None
            IN IF sender_name # None /\ room_name # None
               THEN Summary("message_from_person_in_room", OnePerson(sender_name), room_name)
               ELSE IF sender_name # None
                    THEN Summary("message_from_person", OnePerson(sender_name), None)
                    ELSE NoSummary
       ELSE IF room_name # None
            THEN Summary("messages_in_room", NoPerson, room_name)
            ELSE Summary("messages_from_person",
                         descriptor_from_member_events(SenderIds(nbr[room_id], order)), None)

make_summary_text(st, nbr, rsi, rsn, order) ==
    IF Cardinality(DOMAIN nbr) = 1
    THEN SingleRoomSummary(st, nbr, rsi, order)
    ELSE MultiRoomSummary(nbr, rsn, order)

\* make_summary_text raises KeyError on a missing member event it indexes
SummaryRaises(st, nbr, rsi, rsn) ==
    IF Cardinality(DOMAIN nbr) = 1
    THEN LET room_id == CHOOSE r \in DOMAIN nbr : TRUE
         IN \/ <<"m.room.member", Me>> \notin DOMAIN rsi[room_id]
            \/ /\ st.membership[room_id] = "invite"
               /\ <<"m.room.member", InviterOf(room_id)>> \notin DOMAIN rsi[room_id]
            \/ /\ st.membership[room_id] # "invite"
               /\ Len(nbr[room_id]) > 1
               /\ calculate_room_name(st, rsi[room_id], FALSE) = None
               /\ SendersRaise(nbr[room_id], rsi[room_id])
    ELSE /\ rsn.room_name = None
         /\ SendersRaise(nbr[rsn.room_id], rsi[rsn.room_id])

\* ------------------------------------------------------------------ the inputs
PA(r, i, ts) == [room_id |-> r, event_id |-> <<r, i>>, received_ts |-> ts]

DefaultStore ==
    [type |-> [e \in Events |-> "m.room.message"],
     hidden |-> {},
     membership |-> [r \in Rooms |-> "join"],
     naming |-> [r \in Rooms |-> "explicit"],
     nonmembers |-> {}]

\* Batches over a few rooms with every received_ts: the ordering of rooms.
InitOrder ==
    /\ store = DefaultStore
    /\ push_actions \in SeqsUpTo({PA(r, 1, ts) : r \in 1..OrderRooms, ts \in TsVals}, MaxBatch)
    /\ reason = [room_id |-> push_actions[1].room_id, room_name |-> None]

\* One push action per room, for up to NumRooms rooms: the state fetches.
InitFanout ==
    /\ store = DefaultStore
    /\ \E n \in 1..NumRooms : push_actions = [k \in 1..n |-> PA(n + 1 - k, 1, NoTs)]
    /\ reason = [room_id |-> push_actions[1].room_id, room_name |-> None]

\* Batches over the timeline of one room, whose events are messages, other
\* events or messages hidden from the recipient; or whose recipient is
\* invited, or has no member event.
InitRoom ==
    /\ push_actions \in SeqsUpTo({PA(1, i, 1) : i \in 1..TimelineLen}, MaxNotifs)
    /\ \/ \E k \in [1..TimelineLen -> {"m.room.message", "m.room.topic", "hidden"}] :
             store = [DefaultStore EXCEPT
                         !.type = [e \in Events |->
                                      IF e[1] = 1 /\ k[e[2]] = "m.room.topic"
                                      THEN "m.room.topic" ELSE "m.room.message"],
                         !.hidden = {e \in Events : e[1] = 1 /\ k[e[2]] = "hidden"}]
       \/ \E m \in {"invite", "absent"} :
             store = [DefaultStore EXCEPT !.membership[1] = m]
    /\ reason = [room_id |-> 1, room_name |-> None]

\* Short batches over a few rooms whose names, senders' member events and
\* event types vary: the summary line.
InitSummary ==
    /\ push_actions \in SeqsUpTo({PA(r, i, 1) : r \in 1..OrderRooms, i \in 1..2}, MaxSummary)
    /\ \E rr \in {push_actions[i].room_id : i \in 1..Len(push_actions)},
          nr \in {"explicit", "members", "none"}, no \in {"explicit", "none"},
          ty \in {"m.room.message", "m.room.topic"},
          nm \in {{}, {SenderOf(<<1, 1>>)}} :
          /\ reason = [room_id |-> rr, room_name |-> None]
          /\ store = [DefaultStore EXCEPT
                         !.type = [e \in Events |-> ty],
                         !.naming = [r \in Rooms |-> IF r = rr THEN nr ELSE no],
                         !.nonmembers = nm]

Init ==
    /\ InitOrder \/ InitFanout \/ InitRoom \/ InitSummary
    /\ pc = "start"
    /\ failure = "none"
    /\ rooms_in_order = <<>>
    /\ notifs_by_room = [r \in {} |-> <<>>]
    /\ state_by_room = [r \in {} |-> <<>>]
    /\ it = 1
    /\ inflight = {}
    /\ fetches = [r \in Rooms |-> 0]
    /\ overtaken = FALSE
    /\ rooms = <<>>
    /\ summary_text = NoSummary
    /\ sent = <<>>

\* ----------------------------------------------------------------- the actions
RaiseLogged(exc) ==
    /\ pc' = "send"
    /\ failure' = exc
    /\ UNCHANGED <<store, push_actions, reason, rooms_in_order, notifs_by_room,
                   state_by_room, it, inflight, fetches, overtaken, rooms,
                   summary_text, sent>>

\* An exception leaves send_notification_mail (which has no handler for it):
\* nothing after it runs.
Raise(exc) ==
    /\ pc' = "failed"
    /\ failure' = exc
    /\ UNCHANGED <<store, push_actions, reason, rooms_in_order, notifs_by_room,
                   state_by_room, it, inflight, fetches, overtaken, rooms,
                   summary_text, sent>>

\* Lines 202-223: dedupe the rooms, fetch the events, group the push actions.
Start ==
    /\ pc = "start"
    /\ rooms_in_order' = deduped_ordered_list([i \in 1..Len(push_actions) |-> push_actions[i].room_id])
    /\ notifs_by_room' = GroupByRoom(push_actions)
    /\ pc' = "fetch"
    /\ UNCHANGED <<store, push_actions, reason, failure, state_by_room, it,
                   inflight, fetches, overtaken, rooms, summary_text, sent>>

\* A store read made by the call itself (get_events, get_event, ...) fails.
StoreFails ==
    /\ pc \in {"start", "rooms", "reason", "summary"}
    /\ Raise("StoreError")

\* concurrently_execute starts _fetch_room_state on the next room of the
\* iterator while fewer than the limit are running.
FetchStart ==
    /\ pc = "fetch"
    /\ it <= Len(rooms_in_order)
    /\ Cardinality(inflight) < FetchLimit
    /\ inflight' = inflight \cup {rooms_in_order[it]}
    /\ fetches' = [fetches EXCEPT ![rooms_in_order[it]] = @ + 1]
    /\ it' = it + 1
    /\ UNCHANGED <<store, push_actions, reason, pc, failure, rooms_in_order,
                   notifs_by_room, state_by_room, overtaken, rooms, summary_text, sent>>

fetch_room_state_last_key(sbr, room_id, room_state) ==
    [r \in DOMAIN sbr \cup {rooms_in_order[Len(rooms_in_order)]} |->
        IF r = rooms_in_order[Len(rooms_in_order)] THEN room_state ELSE sbr[r]]

\* state_by_room[room_id] = room_state
fetch_room_state(sbr, room_id, room_state) ==
    [r \in DOMAIN sbr \cup {room_id} |-> IF r = room_id THEN room_state ELSE sbr[r]]

\* _fetch_room_state(room_id) completes.
FetchDone(room_id) ==
    /\ pc = "fetch"
    /\ room_id \in inflight
    /\ state_by_room' = fetch_room_state(state_by_room, room_id,
                                         get_current_state_ids(store, room_id))
    /\ inflight' = inflight \ {room_id}
    /\ overtaken' = (overtaken \/ \E i, j \in 1..Len(rooms_in_order) :
                        /\ i < j
                        /\ rooms_in_order[j] = room_id
                        /\ rooms_in_order[i] \in inflight)
    /\ UNCHANGED <<store, push_actions, reason, pc, failure, rooms_in_order,
                   notifs_by_room, it, fetches, rooms, summary_text, sent>>

\* get_current_state_ids fails in _fetch_room_state(room_id): the failure
\* leaves concurrently_execute and send_notification_mail.
FetchFail(room_id) ==
    /\ pc = "fetch"
    /\ room_id \in inflight
    /\ Raise("StateFetchError")

\* Lines 231-236: every fetch has completed; sort the rooms.
FetchJoin ==
    /\ pc = "fetch"
    /\ it > Len(rooms_in_order)
    /\ inflight = {}
    /\ rooms_in_order' = SortRooms(rooms_in_order, notifs_by_room)
    /\ pc' = "rooms"
    /\ UNCHANGED <<store, push_actions, reason, failure, notifs_by_room,
                   state_by_room, it, inflight, fetches, overtaken, rooms,
                   summary_text, sent>>

\* Lines 238-242: one iteration of the loop over rooms_in_order.
BuildRoom ==
    /\ pc = "rooms"
    /\ Len(rooms) < Len(rooms_in_order)
    /\ LET r == rooms_in_order[Len(rooms) + 1]
       IN IF RoomVarsRaises(store, notifs_by_room[r], state_by_room[r])
          THEN Raise("KeyError")
          ELSE /\ rooms' = Append(rooms, get_room_vars(store, r, notifs_by_room[r],
                                                       state_by_room[r]))
               /\ UNCHANGED <<store, push_actions, reason, pc, failure,
                              rooms_in_order, notifs_by_room, state_by_room, it,
                              inflight, fetches, overtaken, summary_text, sent>>

\* Lines 244-249: reason["room_name"] = calculate_room_name(...)
ReasonRoomName ==
    /\ pc = "rooms"
    /\ Len(rooms) = Len(rooms_in_order)
    /\ reason' = [reason EXCEPT !.room_name =
                     calculate_room_name(store, state_by_room[reason.room_id], TRUE)]
    /\ pc' = "summary"
    /\ UNCHANGED <<store, push_actions, failure, rooms_in_order, notifs_by_room,
                   state_by_room, it, inflight, fetches, overtaken, rooms,
                   summary_text, sent>>

\* Lines 251-253: summary_text = make_summary_text(...)
MakeSummary ==
    /\ pc = "summary"
    /\ IF SummaryRaises(store, notifs_by_room, state_by_room, reason)
       THEN Raise("KeyError")
       ELSE /\ \E order \in Perms({SenderOf(push_actions[i].event_id) :
                                         i \in 1..Len(push_actions)}) :
                  summary_text' = make_summary_text(store, notifs_by_room,
                                                    state_by_room, reason, order)
            /\ pc' = "send"
            /\ UNCHANGED <<store, push_actions, reason, failure, rooms_in_order,
                           notifs_by_room, state_by_room, it, inflight, fetches,
                           overtaken, rooms, sent>>

\* Lines 255-266: send_email(email_address, summary_text, template_vars)
SendEmail ==
    /\ pc = "send"
    /\ sent' = Append(sent, [subject |-> summary_text, rooms |-> rooms])
    /\ pc' = "done"
    /\ UNCHANGED <<store, push_actions, reason, failure, rooms_in_order,
                   notifs_by_room, state_by_room, it, inflight, fetches,
                   overtaken, rooms, summary_text>>

Next ==
    \/ Start
    \/ StoreFails
    \/ FetchStart
    \/ \E r \in Rooms : FetchDone(r)
    \/ \E r \in Rooms : FetchFail(r)
    \/ FetchJoin
    \/ BuildRoom
    \/ ReasonRoomName
    \/ MakeSummary
    \/ SendEmail

Spec == Init /\ [][Next]_vars

\* ------------------------------------------------- vocabulary of the properties
\* the positions reached only after rooms_in_order was sorted
AfterSort == pc \in {"rooms", "summary", "send", "done"}

\* the positions reached only after make_summary_text returned
AfterSummary == pc \in {"send", "done"}

BatchRooms == {push_actions[i].room_id : i \in 1..Len(push_actions)}

\* the largest received_ts of a room's push actions (None counts as 0)
MaxReceivedTs(r) ==
    LET ts == {OrZero(push_actions[i].received_ts) :
                  i \in {j \in 1..Len(push_actions) : push_actions[j].room_id = r}}
    IN CHOOSE t \in ts : \A u \in ts : u <= t

FirstSeen(r) ==
    CHOOSE i \in 1..Len(push_actions) :
        /\ push_actions[i].room_id = r
        /\ \A j \in 1..(i - 1) : push_actions[j].room_id # r

RECURSIVE Flatten(_)
Flatten(notifs) ==
    IF notifs = <<>> THEN <<>> ELSE Head(notifs).messages \o Flatten(Tail(notifs))

Ids(messages) == [i \in 1..Len(messages) |-> messages[i].id]

NoDup(s) == \A i, j \in 1..Len(s) : i # j => s[i] # s[j]

\* notifications in the order of their events in the room's timeline
Chronological(notifs) ==
    \A i, j \in 1..Len(notifs) : i < j => notifs[i].event_id[2] <= notifs[j].event_id[2]

\* the ids of the messages context expansion yields for each notification
ExpandedIds(room_id) ==
    LET ns == notifs_by_room[room_id]
        rs == get_current_state_ids(store, room_id)
    IN [i \in 1..Len(ns) |-> Range(Ids(get_notif_vars(store, ns[i], rs).messages))]

\* the event ids two different notifications of the room both expand to
SharedIds(room_id) ==
    LET ex == ExpandedIds(room_id)
    IN UNION {ex[p[1]] \cap ex[p[2]] : p \in {q \in (DOMAIN ex) \X (DOMAIN ex) : q[1] < q[2]}}

\* a shared event has one entry in the room's list, not historical if it
\* triggered a notification
SharedOnce(k) ==
    LET r == rooms[k].room_id
        flat == Flatten(rooms[k].notifs)
    IN \A e \in SharedIds(r) :
          /\ Cardinality({i \in 1..Len(flat) : flat[i].id = e}) = 1
          /\ (\E i \in 1..Len(notifs_by_room[r]) : notifs_by_room[r][i].event_id = e)
               => \A i \in 1..Len(flat) : flat[i].id = e => ~flat[i].is_historical

VisibleMessage(e) == store.type[e] = "m.room.message" /\ e \notin store.hidden

\* trigger, with the visible message right before and right after it
ExpectedWindow(e) ==
    SelectSeq(events_before(e, 1), VisibleMessage) \o <<e>>
        \o SelectSeq(events_after(e, 1), VisibleMessage)

SendersOfRoom(r) ==
    {SenderOf(push_actions[i].event_id) :
        i \in {j \in 1..Len(push_actions) : push_actions[j].room_id = r}}

\* ----------------------------------------------------------------------- C1
\* C1: after the sort, rooms_in_order holds each distinct room of the batch
\* exactly once, in descending order of the room's maximum received_ts, rooms
\* with equal maxima in first-seen order.  (Refuted: the sort key is the
\* received_ts of the room's LAST push action, not the maximum.)
C1_RoomsSortedByMaxTs ==
    AfterSort =>
        /\ Range(rooms_in_order) = BatchRooms
        /\ Len(rooms_in_order) = Cardinality(BatchRooms)
        /\ \A i, j \in 1..Len(rooms_in_order) : i < j =>
              \/ MaxReceivedTs(rooms_in_order[i]) > MaxReceivedTs(rooms_in_order[j])
              \/ /\ MaxReceivedTs(rooms_in_order[i]) = MaxReceivedTs(rooms_in_order[j])
                 /\ FirstSeen(rooms_in_order[i]) < FirstSeen(rooms_in_order[j])

\* ----------------------------------------------------------------------- C2
\* C2: in a room that is not an invite and whose notifications came in
\* chronological order, no two message entries of the finished room view
\* model (all runs flattened) have the same event id.
C2_NoDuplicateMessageIds ==
    \A k \in 1..Len(rooms) :
        (~rooms[k].invite /\ Chronological(notifs_by_room[rooms[k].room_id]))
            => NoDup(Ids(Flatten(rooms[k].notifs)))

\* a chronological room with a repeated notification and an overlapping one,
\* merged into a single run of three messages
C2_Witness ==
    \E k \in 1..Len(rooms) :
        LET ns == notifs_by_room[rooms[k].room_id]
        IN /\ ~rooms[k].invite
           /\ Chronological(ns)
           /\ Len(ns) = 3
           /\ ns[1].event_id = ns[2].event_id
           /\ ns[2].event_id # ns[3].event_id
           /\ Len(rooms[k].notifs) = 1
           /\ Len(Flatten(rooms[k].notifs)) = 3

\* ----------------------------------------------------------------------- C3
\* C3 as stated: whatever the order of a room's notifications, an event id
\* that two of them share has exactly one entry in the room's final message
\* list, with is_historical = false if some notification had it as trigger.
C3_SharedEventOnceAnyOrder ==
    \A k \in 1..Len(rooms) : ~rooms[k].invite => SharedOnce(k)

\* C3 amended: the same, for rooms whose notifications came in chronological
\* order (the order the merge pass relies on).
C3_SharedEventOnceChronological ==
    \A k \in 1..Len(rooms) :
        (~rooms[k].invite /\ Chronological(notifs_by_room[rooms[k].room_id]))
            => SharedOnce(k)

\* a chronological room where an event is the trigger of one notification
\* and the context of the next one
C3_Witness ==
    \E k \in 1..Len(rooms) :
        LET r == rooms[k].room_id
            ns == notifs_by_room[r]
        IN /\ ~rooms[k].invite
           /\ Chronological(ns)
           /\ Len(ns) = 2
           /\ ns[1].event_id # ns[2].event_id
           /\ ns[1].event_id \in SharedIds(r)
           /\ \E i \in 1..Len(Flatten(rooms[k].notifs)) :
                 /\ Flatten(rooms[k].notifs)[i].id = ns[1].event_id
                 /\ ~Flatten(rooms[k].notifs)[i].is_historical

\* ----------------------------------------------------------------------- C4
\* C4: once a step of the digest build has failed, the call has ended with
\* that failure and send_email was not and is not invoked.
C4_NoEmailAfterFailure ==
    /\ failure # "none" => (pc = "failed" /\ sent = <<>>)
    /\ pc = "failed" => failure # "none"

\* a state fetch failed after another room's state had been stored
C4_Witness ==
    /\ pc = "failed"
    /\ failure = "StateFetchError"
    /\ DOMAIN state_by_room # {}
    /\ inflight # {}
    /\ sent = <<>>

\* ----------------------------------------------------------------------- C5
\* C5: when the loop over get_room_vars starts (and from then on),
\* state_by_room has an entry for exactly the rooms of rooms_in_order, each
\* the state the resolver returns for that room, whatever order the fetches
\* completed in.
C5_StateCompleteAndKeyed ==
    AfterSort =>
        /\ DOMAIN state_by_room = Range(rooms_in_order)
        /\ \A r \in DOMAIN state_by_room :
              state_by_room[r] = get_current_state_ids(store, r)

\* the first get_room_vars is about to start, after fetches of three or more
\* rooms completed out of their starting order
C5_Witness ==
    /\ pc = "rooms"
    /\ rooms = <<>>
    /\ Len(rooms_in_order) >= 3
    /\ overtaken

\* ----------------------------------------------------------------------- C6
\* C6: at most 3 state fetches are in flight at any instant, no room is
\* fetched twice, and once the fetches are over each room of the batch was
\* fetched exactly once.
C6_AtMostThreeInFlight ==
    /\ Cardinality(inflight) <= 3
    /\ \A r \in Rooms : fetches[r] <= 1
    /\ AfterSort => \A r \in Rooms : fetches[r] = (IF r \in BatchRooms THEN 1 ELSE 0)

\* three fetches in flight while a fourth room waits
C6_Witness ==
    /\ pc = "fetch"
    /\ Cardinality(inflight) = 3
    /\ it <= Len(rooms_in_order)

\* ----------------------------------------------------------------------- C7
\* C7: with one room, not an invite, and one notification, the summary is
\* "message from X in room Y" if sender name and room name resolve, "message
\* from X" if only the sender name does, and otherwise one of the "several
\* messages" subjects; never None.  (Refuted: with no sender name the
\* function returns None.)
C7_SingleNotifSummaryIsString ==
    (/\ AfterSummary
     /\ Cardinality(BatchRooms) = 1
     /\ Len(push_actions) = 1
     /\ store.membership[push_actions[1].room_id] # "invite")
    => LET r == push_actions[1].room_id
           named == store.naming[r] = "explicit"
           known == SenderOf(push_actions[1].event_id) \notin store.nonmembers
       IN /\ summary_text # NoSummary
          /\ summary_text.template =
                IF known /\ named THEN "message_from_person_in_room"
                ELSE IF known THEN "message_from_person"
                ELSE IF named THEN "messages_in_room"
                ELSE "messages_from_person"

\* ----------------------------------------------------------------------- C8
\* C8: the view model of a room in which the recipient's membership is
\* "invite" has invite = true and no messages, whatever its notifications.
C8_InviteRoomHasNoMessages ==
    \A k \in 1..Len(rooms) :
        store.membership[rooms[k].room_id] = "invite"
            => rooms[k].invite /\ rooms[k].notifs = <<>>

\* an invite room built from a batch of several notifications
C8_Witness ==
    \E k \in 1..Len(rooms) :
        /\ store.membership[rooms[k].room_id] = "invite"
        /\ Len(notifs_by_room[rooms[k].room_id]) >= 2
        /\ rooms[k].invite

\* ----------------------------------------------------------------------- C9
\* C9: the message list of a notification whose event is a message holds
\* the visible message right before the event, the event, and the visible
\* message right after it, in timeline order (seen on rooms with a single
\* notification, whose message list is that of the notification).
\* (Refuted: events_after is fetched and never used.)
C9_WindowBeforeAndAfter ==
    \A k \in 1..Len(rooms) :
        LET ns == notifs_by_room[rooms[k].room_id]
        IN (/\ ~rooms[k].invite
            /\ Len(ns) = 1
            /\ store.type[ns[1].event_id] = "m.room.message")
           => /\ Len(rooms[k].notifs) = 1
              /\ Ids(rooms[k].notifs[1].messages) = ExpectedWindow(ns[1].event_id)

C11_OnlyVisibleMessages ==
    \A k \in 1..Len(rooms) :
        \A i \in 1..Len(Flatten(rooms[k].notifs)) :
            Flatten(rooms[k].notifs)[i].id \notin store.hidden

\* ---------------------------------------------------------------------- C12
\* The merge step applied to room k's runs with its own last run as the next
\* notification's variables.
Remerged(k) == MergeNotif(rooms[k].notifs, rooms[k].notifs[Len(rooms[k].notifs)])

\* Nothing is appended to the last run, no run is added, and no entry's
\* is_historical goes from false to true.
RemergeChangesNothing(k) ==
    LET notifs == rooms[k].notifs
        n == Len(notifs)
        prev == notifs[n].messages
        after == Remerged(k)
    IN /\ Len(after) = n
       /\ \A i \in 1..(n - 1) : after[i] = notifs[i]
       /\ Ids(after[n].messages) = Ids(prev)
       /\ \A i \in 1..Len(prev) :
              ~prev[i].is_historical => ~after[n].messages[i].is_historical

\* C12 (as stated): feeding the already-merged last run of any built room to
\* the merge step again changes nothing.
\* (Refuted: a last run without messages matches nothing, so it is appended.)
C12_RemergeIdempotent ==
    \A k \in 1..Len(rooms) :
        rooms[k].notifs # <<>> => RemergeChangesNothing(k)

\* C12 (amended): feeding the already-merged last run to the merge step again
\* changes nothing when that run has at least one message.
C12_RemergeIdempotentNonEmpty ==
    \A k \in 1..Len(rooms) :
        (rooms[k].notifs # <<>> /\ rooms[k].notifs[Len(rooms[k].notifs)].messages # <<>>)
            => RemergeChangesNothing(k)

\* A run merged from several notifications, holding context and trigger
\* entries, is fed to itself and comes back unchanged.
C12_Witness ==
    \E k \in 1..Len(rooms) :
        /\ Len(notifs_by_room[rooms[k].room_id]) >= 2
        /\ Len(rooms[k].notifs) = 1
        /\ Len(rooms[k].notifs[1].messages) >= 3
        /\ \E i \in 1..Len(rooms[k].notifs[1].messages) :
               rooms[k].notifs[1].messages[i].is_historical
        /\ Remerged(k) = rooms[k].notifs

\* ---------------------------------------------------------------------- C13
\* C13: with one room in the batch, the recipient not invited there and two
\* or more notifications, the summary is "messages in room Y" when the room
\* is explicitly named (a member-derived name does not count), and otherwise
\* "messages from <senders>" over the distinct senders of the room's
\* notification events, each counted once.
C13_SingleRoomSeveralNotifs ==
    \A r \in BatchRooms :
        (/\ AfterSummary
         /\ BatchRooms = {r}
         /\ store.membership[r] # "invite"
         /\ Len(push_actions) >= 2)
        => LET who == SendersOfRoom(r)
           IN IF store.naming[r] = "explicit"
              THEN summary_text = Summary("messages_in_room", NoPerson, <<"name", r>>)
              ELSE /\ summary_text.template = "messages_from_person"
                   /\ summary_text.room = None
                   /\ Range(summary_text.person.names) \subseteq who
                   /\ NoDup(summary_text.person.names)
                   /\ Len(summary_text.person.names) + summary_text.person.others
                         = Cardinality(who)

\* one room whose name would come from its members, with two notifications
\* of the same sender: the subject names that sender once
C13_Witness ==
    /\ AfterSummary
    /\ Cardinality(BatchRooms) = 1
    /\ Len(push_actions) >= 2
    /\ \A r \in BatchRooms :
          /\ store.membership[r] = "join"
          /\ store.naming[r] = "members"
          /\ Cardinality(SendersOfRoom(r)) = 1
    /\ summary_text.template = "messages_from_person"
    /\ Len(summary_text.person.names) = 1

\* ---------------------------------------------------------------------- C14
\* C14: for a room the recipient is not invited to, whose notifications are
\* processed in chronological order, every message context expansion yields
\* for any of the room's notifications has its event id in the room's final
\* message list.
C14_NoMessageLost ==
    \A k \in 1..Len(rooms) :
        LET r == rooms[k].room_id
        IN (~rooms[k].invite /\ Chronological(notifs_by_room[r]))
            => UNION Range(ExpandedIds(r)) \subseteq Range(Ids(Flatten(rooms[k].notifs)))

\* a later notification whose context is in the previous run and whose
\* trigger is not: the trigger is appended to that run
C14_Witness ==
    \E k \in 1..Len(rooms) :
        LET r == rooms[k].room_id
            ex == ExpandedIds(r)
        IN /\ ~rooms[k].invite
           /\ Chronological(notifs_by_room[r])
           /\ Len(rooms[k].notifs) = 1
           /\ \E i \in DOMAIN ex :
                 /\ i > 1
                 /\ ex[i] \cap ex[i - 1] # {}
                 /\ ex[i] \ UNION {ex[j] : j \in 1..(i - 1)} # {}
                 /\ ex[i] \subseteq Range(Ids(rooms[k].notifs[1].messages))
====
